---- MODULE Spec2Model ----
(***************************************************************************)
(* nagios-lcd.py: the poll loop of main(), the problem parser of Fetcher   *)
(* and the display synchronizer NagiosLCD.display_problems, as a state     *)
(* machine.  Python list indexes are kept 0-based; a Python list l is the  *)
(* TLA+ sequence whose element l[i] is At(l, i).                           *)
(***************************************************************************)
EXTENDS Integers, Sequences, FiniteSets, TLC

VARIABLES
  pc,                \* main(): "poll" (top of the while loop), "sleep" (at
                     \* fetcher.do_sleep()), "reattach" (inside wait_for_lcd_attach),
                     \* "exited" (an exception left main)
  lcd,               \* TRUE iff the attribute self.lcd is bound
  current_problems,  \* NagiosLCD.current_problems
  refresh,           \* NagiosLCD.__refresh
  last,              \* this loop iteration: its kind and the exception that ended it
  data,              \* this iteration: the value fetch() returned (None if it did not)
  problems,          \* this iteration: the argument of display_problems, if called
  previous,          \* this iteration: current_problems at its start
  cmds,              \* this iteration: the device calls issued, in order
  slept,             \* the most recent sleep
  lastCall,          \* the display_problems call of the iteration before, if it returned
  fresh,             \* "constructed" or "reattached": the attach since which no
                     \* display_problems call was entered; "no" once one was
  first,             \* this iteration entered the first display_problems call since
                     \* that attach; "no" otherwise
  splashShown,       \* an empty display_problems drew the splash since the last attach
  screen             \* what the display shows

vars == <<pc, lcd, current_problems, refresh, last, data, problems, previous,
          cmds, slept, lastCall, fresh, first, splashShown, screen>>

----------------------------------------------------------------------------
(* Bounds of the model.                                                    *)

\* the longest host_status and service_status lists the poll loop is given
MaxHosts == 2
MaxServices == 1
\* the longest host_status list of identical records the poll loop is given
MaxBulk == 7
\* the same lists, for the first cycle's inputs on the display order
MaxOrderHosts == 2
MaxOrderServices == 2
\* and for the first cycle's inputs on parse
MaxParseHosts == 2
MaxParseServices == 1

\* length of the problem lists passed to display_problems on a session used directly
MaxSessionProblems == 2

\* number of host records of a poll of the loop over every fetcher class
MaxAnyHosts == 2

----------------------------------------------------------------------------
(* Python helpers.                                                         *)

At(l, i) == l[i + 1]

Get(d, key, default) == IF key \in DOMAIN d THEN d[key] ELSE default

RECURSIVE Repeat(_, _)
Repeat(x, n) == IF n <= 0 THEN <<>> ELSE <<x>> \o Repeat(x, n - 1)

RECURSIVE SeqsUpTo(_, _)
SeqsUpTo(S, n) ==
  IF n <= 0 THEN {<<>>}
  ELSE LET shorter == SeqsUpTo(S, n - 1)
       IN shorter \cup {Append(s, x) : s \in {t \in shorter : Len(t) = n - 1}, x \in S}

\* str.split(sep) on a string held as a sequence of one-character strings
RECURSIVE Split(_, _)
Split(s, sep) ==
  IF \A i \in 1..Len(s) : s[i] # sep THEN <<s>>
  ELSE LET k == CHOOSE i \in 1..Len(s) : s[i] = sep /\ \A j \in 1..(i - 1) : s[j] # sep
       IN <<SubSeq(s, 1, k - 1)>> \o Split(SubSeq(s, k + 1, Len(s)), sep)

Digits == <<"0", "1", "2", "3", "4", "5", "6", "7", "8", "9">>

DigitValue(c) == (CHOOSE i \in 1..Len(Digits) : Digits[i] = c) - 1

\* int(s) raises ValueError unless s is a decimal literal
IsIntLiteral(s) == Len(s) > 0 /\ \A i \in 1..Len(s) : \E d \in 1..Len(Digits) : Digits[d] = s[i]

RECURSIVE ToInt(_)
ToInt(s) == IF Len(s) = 0 THEN 0
            ELSE 10 * ToInt(SubSeq(s, 1, Len(s) - 1)) + DigitValue(s[Len(s)])

\* The classes an exception is an instance of (its own and its bases).
Bases(exc) ==
  CASE exc = "NotImplementedError" -> {"NotImplementedError", "RuntimeError"}
    [] exc = "RuntimeError"        -> {"RuntimeError"}
    [] exc = "ValueError"          -> {"ValueError"}
    [] exc = "USBError"            -> {"USBError", "IOError"}
    [] exc = "IOError"             -> {"IOError"}
    [] exc = "URLError"            -> {"URLError", "IOError"}
    [] exc = "FileNotFoundError"   -> {"FileNotFoundError", "IOError"}
    [] exc = "IndexError"          -> {"IndexError", "LookupError"}
    [] exc = "KeyError"            -> {"KeyError", "LookupError"}
    [] exc = "AttributeError"      -> {"AttributeError"}
    [] OTHER                       -> {exc}

IsInstance(exc, classes) == exc # "none" /\ Bases(exc) \cap classes # {}

----------------------------------------------------------------------------
(* Problem, and the style table of NagiosLCD.                              *)

Problem(state, descr) == [state |-> state, descr |-> descr]

is_state(p, state) == p.state = state

\* Problem.__eq__
ProblemEq_descr_only(p, other) == p.descr = other.descr

ProblemEq(p, other) == is_state(p, other.state) /\ p.descr = other.descr

\* NagiosLCD.lines: TextLines.LINE_1 .. LINE_6, a line mask held as the set of its lines
lines == <<{1}, {2}, {3}, {4}, {5}, {6}>>

TextLinesALL == {1, 2, 3, 4, 5, 6}

\* keys of NagiosLCD.states in insertion order
states_by_claimed_class ==
  <<"DOWN", "UNREACHABLE", "WARNING", "CRITICAL", "UNKNOWN", "UP", "OK">>

states == <<"DOWN", "CRITICAL", "WARNING", "UNREACHABLE", "UNKNOWN", "UP", "OK">>

\* NagiosLCD.states[key]: State(image, color)
StateStyle(key) ==
  CASE key \in {"DOWN", "CRITICAL"}       -> [image |-> "DOWN",    color |-> "RED"]
    [] key = "WARNING"                    -> [image |-> "WARNING", color |-> "YELLOW"]
    [] key \in {"UNREACHABLE", "UNKNOWN"} -> [image |-> "UNKNOWN", color |-> "PURPLE"]
    [] key \in {"UP", "OK"}               -> [image |-> "UP",      color |-> "GREEN"]

----------------------------------------------------------------------------
(* Device calls (render primitives) as values.                             *)

IconCmd(pos, image) ==
  [op |-> "icon", pos |-> pos, mask |-> {}, arg |-> image, pad |-> FALSE,
   align |-> "NONE", color |-> "NONE"]

TextCmd(line, text, pad, align, color) ==
  [op |-> "text", pos |-> line, mask |-> {}, arg |-> text, pad |-> pad,
   align |-> align, color |-> color]

ClearCmd(mask, color) ==
  [op |-> "clear", pos |-> 0, mask |-> mask, arg |-> "", pad |-> FALSE,
   align |-> "NONE", color |-> color]

\* NagiosLCD.display_problem(line, problem)
display_problem(line, problem) ==
  LET state == StateStyle(problem.state)
  IN <<IconCmd(line * 8, state.image),
       TextCmd(line + 1, problem.descr, TRUE, "LEFT", state.color)>>

\* NagiosLCD.display_splash(text, color)
display_splash(text, color) ==
  <<ClearCmd(TextLinesALL, "LIGHT_GREY"),
    IconCmd(0, "SPLASH"),
    TextCmd(5, text, FALSE, "CENTRE", color)>>

\* NagiosLCD.display_all_up: the splash, then reset_problems
display_all_up == display_splash("ALL UP", "GREEN")

----------------------------------------------------------------------------
(* The display: what the device shows after the calls it received. Six     *)
(* lines, each with an icon slot and a text, and the large splash image.   *)

BlankLine == [icon |-> "NONE", text |-> "", color |-> "NONE"]

\* the display before any call; a device that raised USBError is gone ("LCD
\* removed from usb") and shows nothing until it is attached and drawn again
PowerOn == [image |-> FALSE, rows |-> [i \in 1..6 |-> BlankLine]]

\* clear_lines(mask, color): the lines of the mask lose icon and text, and the
\* large image does not survive a clear
DeviceClear(scr, c) ==
  [image |-> scr.image /\ c.mask = {},
   rows |-> [i \in 1..6 |-> IF i \in c.mask THEN BlankLine ELSE scr.rows[i]]]

\* display_icon(pos, slot): the large image, or the icon of the line of the grid
\* position (8 positions a line); a position outside the grid shows nothing
DeviceIcon(scr, c) ==
  IF c.arg = "SPLASH" THEN [scr EXCEPT !.image = TRUE]
  ELSE IF (c.pos \div 8) + 1 \in 1..6
  THEN [scr EXCEPT !.rows[(c.pos \div 8) + 1].icon = c.arg]
  ELSE scr

\* display_text_on_line(line, text, pad, alignment, colour): the text of the line
DeviceText(scr, c) ==
  IF c.pos \in 1..6
  THEN [scr EXCEPT !.rows[c.pos].text = c.arg, !.rows[c.pos].color = c.color]
  ELSE scr

DeviceCall(scr, c) ==
  CASE c.op = "clear" -> DeviceClear(scr, c)
    [] c.op = "icon"  -> DeviceIcon(scr, c)
    [] c.op = "text"  -> DeviceText(scr, c)

\* the display after the calls cs, in order
RECURSIVE DeviceRun(_, _)
DeviceRun(scr, cs) ==
  IF cs = <<>> THEN scr ELSE DeviceRun(DeviceCall(scr, Head(cs)), Tail(cs))

----------------------------------------------------------------------------
(* NagiosLCD.display_problems, as the device calls it issues when no call  *)
(* fails, the exception it raises by itself, and the fields it assigns.    *)

\* sort problems by defined states: for state in states: for problem in problems
RECURSIVE SortFrom(_, _)
SortFrom(ps, k) ==
  IF k > Len(states) THEN <<>>
  ELSE SelectSeq(ps, LAMBDA p : is_state(p, states[k])) \o SortFrom(ps, k + 1)

new_problems_without_up(ps) ==
  SelectSeq(SortFrom(ps, 1), LAMBDA p : p.state \notin {"UP", "OK"})

new_problems_unsorted(ps) == ps

new_problems(ps) == SortFrom(ps, 1)

\* clear splash
clear_splash(cur) == IF Len(cur) = 0 THEN <<ClearCmd(TextLinesALL, "BLACK")>> ELSE <<>>

\* display new problems only: for i in range(len(new_problems))
RECURSIVE RenderFrom(_, _, _)
RenderFrom(cur, new, i) ==
  IF i >= Len(new) THEN <<>>
  ELSE (IF Len(cur) > i /\ ProblemEq(At(new, i), At(cur, i))
        THEN <<>>
        ELSE display_problem(i, At(new, i))) \o RenderFrom(cur, new, i + 1)

display_new(cur, new) == RenderFrom(cur, new, 0)

\* clear old problems: for i in range(len(new_problems), len(current_problems));
\* self.lines[i] raises IndexError past the end of the list
RECURSIVE ClearFrom(_, _, _)
ClearFrom(i, stop, mask) ==
  IF i >= stop THEN [exc |-> "none", mask |-> mask]
  ELSE IF i >= Len(lines) THEN [exc |-> "IndexError", mask |-> mask]
  ELSE ClearFrom(i + 1, stop, mask \cup At(lines, i))

clear_old_never(cur, new) == [exc |-> "none", mask |-> {}]

clear_old(cur, new) == ClearFrom(Len(new), Len(cur), {})

display_none_keeps_refresh(cur, rf) ==
  IF Len(cur) > 0 \/ rf
  THEN [calls |-> display_all_up, exc |-> "none", current |-> <<>>, refresh |-> rf]
  ELSE [calls |-> <<>>, exc |-> "none", current |-> cur, refresh |-> rf]

\* the branch taken for an empty problem list
display_none(cur, rf) ==
  IF Len(cur) > 0 \/ rf
  THEN [calls |-> display_all_up, exc |-> "none", current |-> <<>>, refresh |-> FALSE]
  ELSE [calls |-> <<>>, exc |-> "none", current |-> cur, refresh |-> rf]

\* the rest of display_problems, for a non-empty problem list
display_some(cur, rf, ps) ==
  LET new == new_problems(ps)
      head == clear_splash(cur) \o display_new(cur, new)
      old == clear_old(cur, new)
  IN IF old.exc # "none"
     THEN [calls |-> head, exc |-> old.exc, current |-> cur, refresh |-> rf]
     ELSE [calls |-> head \o (IF old.mask # {} THEN <<ClearCmd(old.mask, "BLACK")>> ELSE <<>>),
           exc |-> "none", current |-> new, refresh |-> rf]

display_problems(cur, rf, ps) ==
  IF Len(ps) = 0 THEN display_none(cur, rf) ELSE display_some(cur, rf, ps)

----------------------------------------------------------------------------
(* Fetcher: the suppression policy and parse.                              *)

\* Fetcher._skip(d): the value returned, or the exception raised
skip_every_first_attempt(d) ==
  IF Get(d, "state_type", "") = "SOFT"
  THEN LET parts == Split(Get(d, "attempts", <<"1", "/", "1">>), "/")
       IN IF Len(parts) # 2 THEN [exc |-> "ValueError", skip |-> FALSE]
          ELSE IF ~IsIntLiteral(parts[1]) THEN [exc |-> "ValueError", skip |-> FALSE]
          ELSE [exc |-> "none", skip |-> ToInt(parts[1]) = 1]
  ELSE [exc |-> "none", skip |-> FALSE]

skip(d) ==
  IF Get(d, "state_type", "") = "SOFT"
  THEN LET parts == Split(Get(d, "attempts", <<"1", "/", "1">>), "/")
       IN IF Len(parts) # 2 THEN [exc |-> "ValueError", skip |-> FALSE]
          ELSE IF ~IsIntLiteral(parts[1]) THEN [exc |-> "ValueError", skip |-> FALSE]
          ELSE IF ToInt(parts[1]) # 1 THEN [exc |-> "none", skip |-> FALSE]
          ELSE IF ~IsIntLiteral(parts[2]) THEN [exc |-> "ValueError", skip |-> FALSE]
          ELSE [exc |-> "none", skip |-> ToInt(parts[2]) > 1]
  ELSE [exc |-> "none", skip |-> FALSE]

\* the Problem parse builds of a host_status or service_status record
MakeProblem(kind, d) ==
  IF kind = "host"
  THEN Problem(Get(d, "status", "UNKNOWN"),
               "[" \o Get(d, "host_display_name", "UNKNOWN") \o "]")
  ELSE Problem(Get(d, "status", "UNKNOWN"),
               "[" \o Get(d, "host_display_name", "UNKNOWN") \o "] "
                   \o Get(d, "service_display_name", "UNKNOWN"))

\* one of the two loops of parse, from record i on, appending to problems
RECURSIVE ParseFrom(_, _, _, _)
ParseFrom(kind, recs, i, acc) ==
  IF i >= Len(recs) THEN [exc |-> "none", problems |-> acc]
  ELSE LET s == skip(At(recs, i))
       IN IF s.exc # "none" THEN [exc |-> s.exc, problems |-> <<>>]
          ELSE IF s.skip THEN ParseFrom(kind, recs, i + 1, acc)
          ELSE ParseFrom(kind, recs, i + 1, Append(acc, MakeProblem(kind, At(recs, i))))

\* Fetcher.parse(data); data None has no get()
parse(d) ==
  IF d.kind = "None" THEN [exc |-> "AttributeError", problems |-> <<>>]
  ELSE LET hosts == ParseFrom("host", Get(d, "host_status", <<>>), 0, <<>>)
       IN IF hosts.exc # "none" THEN hosts
          ELSE ParseFrom("service", Get(d, "service_status", <<>>), 0, hosts.problems)

----------------------------------------------------------------------------
(* The values and exceptions fetch() hands to the loop.                    *)

None == [kind |-> "None"]

Dict(hosts, services) == [kind |-> "dict", host_status |-> hosts, service_status |-> services]

Fetched(value) == [exc |-> "none", value |-> value]

Failed(exc) == [exc |-> exc, value |-> None]

\* HTTP_Fetcher.fetch: HTTPError with code >= 400 is re-raised as RuntimeError, one
\* with a smaller code returns None; URLError and socket timeouts are not caught;
\* json.loads raises ValueError, and ['status'] KeyError
HTTP_fetch(values) ==
  {Fetched(v) : v \in values} \cup {Fetched(None)}
    \cup {Failed(e) : e \in {"RuntimeError", "URLError", "ValueError", "KeyError"}}

\* JSONFile_Fetcher.fetch: open() raises FileNotFoundError, json.load ValueError
JSONFile_fetch(values) ==
  {Fetched(v) : v \in values} \cup {Failed(e) : e \in {"FileNotFoundError", "ValueError"}}

\* MYSQL_Fetcher.fetch: sqlex.Error is re-raised as RuntimeError; _skip(row) raises
\* ValueError
MYSQL_fetch(values) ==
  {Fetched(v) : v \in values} \cup {Failed(e) : e \in {"RuntimeError", "ValueError"}}

\* Fetcher.fetch, which a fetcher class that does not override it inherits
Fetcher_fetch == {Failed("NotImplementedError")}

fetch(values) == HTTP_fetch(values) \cup JSONFile_fetch(values) \cup MYSQL_fetch(values)

----------------------------------------------------------------------------
(* NagiosLCD.attach and detach, and the loop body of main().               *)

\* Fetcher.sleep, config.getint('sleep', 60)
FetcherSleep == 60

\* sleep = 60 of wait_for_lcd_attach
ReattachSleep == 60

\* the three configuration calls of attach, after LCDSysInfo() opened the device
attach_calls == <<"set_brightness", "save_brightness", "dim_when_idle">>

attach_keeps_problems(bound, cur, rf, k) ==
  IF k = 0 THEN [exc |-> "none", at |-> "none", lcd |-> TRUE, current |-> cur, refresh |-> TRUE]
  ELSE IF k = 1 THEN [exc |-> "IOError", at |-> "LCDSysInfo", lcd |-> bound,
                      current |-> cur, refresh |-> rf]
  ELSE [exc |-> "USBError", at |-> attach_calls[k - 1], lcd |-> TRUE,
        current |-> cur, refresh |-> rf]

\* NagiosLCD.attach when its k-th step fails (k = 0: none): step 1 is
\* plcd.LCDSysInfo(), which raises IOError when no device is found
attach(bound, cur, rf, k) ==
  IF k = 0 THEN [exc |-> "none", at |-> "none", lcd |-> TRUE, current |-> <<>>, refresh |-> TRUE]
  ELSE IF k = 1 THEN [exc |-> "IOError", at |-> "LCDSysInfo", lcd |-> bound,
                      current |-> cur, refresh |-> rf]
  ELSE [exc |-> "USBError", at |-> attach_calls[k - 1], lcd |-> TRUE,
        current |-> cur, refresh |-> rf]

\* NagiosLCD.detach: del self.lcd
detach(bound) ==
  IF bound THEN [exc |-> "none", lcd |-> FALSE] ELSE [exc |-> "AttributeError", lcd |-> bound]

\* problems = fetcher.parse(fetcher.fetch()); lcd.display_problems(problems),
\* where f is what fetch does, when no device call raises
try_body(cur, rf, f) ==
  IF f.exc # "none"
  THEN [at |-> "fetch", exc |-> f.exc, entered |-> FALSE, problems |-> <<>>,
        calls |-> <<>>, current |-> cur, refresh |-> rf]
  ELSE LET pr == parse(f.value)
       IN IF pr.exc # "none"
          THEN [at |-> "parse", exc |-> pr.exc, entered |-> FALSE, problems |-> <<>>,
                calls |-> <<>>, current |-> cur, refresh |-> rf]
          ELSE LET dp == display_problems(cur, rf, pr.problems)
               IN [at |-> IF dp.exc = "none" THEN "none" ELSE "display",
                   exc |-> dp.exc, entered |-> TRUE, problems |-> pr.problems,
                   calls |-> dp.calls, current |-> dp.current, refresh |-> dp.refresh]

\* the same when the k-th device call of r raises usb.core.USBError (k = 0: none
\* does): the calls after it and the assignments that follow them do not happen
usb_error(cur, rf, r, k) ==
  IF k = 0 THEN r
  ELSE [at |-> "display", exc |-> "USBError", entered |-> TRUE, problems |-> r.problems,
        calls |-> SubSeq(r.calls, 1, k), current |-> cur, refresh |-> rf]

handler_logs_usb_error(exc) ==
  IF exc = "none" THEN "sleep"
  ELSE IF IsInstance(exc, {"NotImplementedError"}) THEN "raise"
  ELSE IF IsInstance(exc, {"ValueError", "RuntimeError", "USBError"}) THEN "log"
  ELSE "raise"

handler_without_reraise(exc) ==
  IF exc = "none" THEN "sleep"
  ELSE IF IsInstance(exc, {"ValueError", "RuntimeError"}) THEN "log"
  ELSE IF IsInstance(exc, {"USBError"}) THEN "reconnect"
  ELSE "raise"

\* the except clauses of the loop, in order
handler(exc) ==
  IF exc = "none" THEN "sleep"
  ELSE IF IsInstance(exc, {"NotImplementedError"}) THEN "raise"
  ELSE IF IsInstance(exc, {"ValueError", "RuntimeError"}) THEN "log"
  ELSE IF IsInstance(exc, {"USBError"}) THEN "reconnect"
  ELSE "raise"

NoSleep == <<"none", 0>>

NoCall == [ok |-> FALSE, problems |-> <<>>]

NoStep == [step |-> "none", at |-> "none", exc |-> "none", entered |-> FALSE]

\* the try statement of the while loop of main(), up to fetcher.do_sleep() or, on
\* USBError, up to the entry of the loop of wait_for_lcd_attach
Cycle(f, run, k) ==
  /\ pc = "poll"
  /\ \E r \in {usb_error(current_problems, refresh, run, k)} :
       \E route \in {handler(r.exc)} :
         \E d \in {detach(lcd)} :
           /\ current_problems' = r.current
           /\ refresh' = r.refresh
           /\ data' = IF r.at = "fetch" THEN None ELSE f.value
           /\ problems' = r.problems
           /\ previous' = current_problems
           /\ cmds' = r.calls
           /\ last' = [step |-> "cycle", at |-> r.at, exc |-> r.exc, entered |-> r.entered]
           /\ fresh' = IF r.entered THEN "no" ELSE fresh
           /\ first' = IF r.entered THEN fresh ELSE "no"
           /\ splashShown' = (splashShown \/
                                (r.entered /\ r.exc = "none" /\ Len(r.problems) = 0
                                   /\ r.calls # <<>>))
           /\ lastCall' = IF r.entered /\ r.exc = "none"
                          THEN [ok |-> TRUE, problems |-> r.problems]
                          ELSE NoCall
           /\ IF route \in {"sleep", "log"}
              THEN pc' = "sleep" /\ lcd' = lcd
              ELSE IF route = "reconnect" /\ d.exc = "none"
              THEN pc' = "reattach" /\ lcd' = d.lcd
              ELSE pc' = "exited" /\ lcd' = lcd
           /\ screen' = IF r.exc = "USBError" THEN PowerOn ELSE DeviceRun(screen, r.calls)
           /\ UNCHANGED slept

\* fetcher.do_sleep(), and the start of the next iteration
DoSleep ==
  /\ pc = "sleep"
  /\ pc' = "poll"
  /\ slept' = <<"do_sleep", FetcherSleep>>
  /\ last' = NoStep
  /\ data' = None
  /\ problems' = <<>>
  /\ previous' = current_problems
  /\ cmds' = <<>>
  /\ first' = "no"
  /\ UNCHANGED <<lcd, current_problems, refresh, lastCall, fresh, splashShown, screen>>

\* one iteration of the loop of wait_for_lcd_attach; the attach that succeeds
\* returns to main(), at fetcher.do_sleep()
AttachAttempt(k) ==
  /\ pc = "reattach"
  /\ LET a == attach(lcd, current_problems, refresh, k)
     IN /\ lcd' = a.lcd
        /\ current_problems' = a.current
        /\ refresh' = a.refresh
        /\ last' = [step |-> "attach", at |-> a.at, exc |-> a.exc, entered |-> FALSE]
        /\ cmds' = <<>>
        /\ IF a.exc = "none"
           THEN /\ pc' = "sleep"
                /\ fresh' = "reattached"
                /\ splashShown' = FALSE
                /\ UNCHANGED slept
           ELSE IF IsInstance(a.exc, {"IOError"})
           THEN /\ pc' = "reattach"
                /\ slept' = <<"wait_for_lcd_attach", ReattachSleep>>
                /\ UNCHANGED <<fresh, splashShown>>
           ELSE /\ pc' = "exited"
                /\ UNCHANGED <<slept, fresh, splashShown>>
        /\ lastCall' = NoCall
        /\ data' = None
        /\ problems' = <<>>
        /\ previous' = current_problems
        /\ first' = "no"
        /\ UNCHANGED screen

----------------------------------------------------------------------------
(* The backend contents the model draws from.                              *)

Attempts13 == <<"1", "/", "3">>

HostRecord(status, name) ==
  [status |-> status, host_display_name |-> name, state_type |-> "HARD",
   attempts |-> Attempts13]

ServiceRecord(status, name, service) ==
  [status |-> status, host_display_name |-> name, service_display_name |-> service,
   state_type |-> "HARD", attempts |-> Attempts13]

\* the poll loop's inputs: short lists, and lists of identical records that fill
\* every line of the display or are longer than it
MainHosts == {HostRecord("DOWN", "a"), HostRecord("DOWN", "b"), HostRecord("UNREACHABLE", "a")}

MainServices == {ServiceRecord("PENDING", "a", "s"), ServiceRecord("CRITICAL", "a", "s")}

BulkData == {Dict(Repeat(HostRecord("DOWN", "a"), n), <<>>) : n \in Len(lines)..MaxBulk}

MainData ==
  {Dict(hs, ss) : hs \in SeqsUpTo(MainHosts, MaxHosts), ss \in SeqsUpTo(MainServices, MaxServices)}
    \cup BulkData

\* the first cycle's inputs for the display order: every state of the style table
OrderHosts == {HostRecord("DOWN", "a"), HostRecord("DOWN", "b"), HostRecord("UNREACHABLE", "a"),
               HostRecord("UP", "a"), HostRecord("PENDING", "a")}

OrderServices == {ServiceRecord("CRITICAL", "a", "s"), ServiceRecord("WARNING", "a", "s"),
                  ServiceRecord("UNKNOWN", "a", "s"), ServiceRecord("OK", "a", "s")}

OrderData ==
  {Dict(hs, ss) : hs \in SeqsUpTo(OrderHosts, MaxOrderHosts),
                  ss \in SeqsUpTo(OrderServices, MaxOrderServices)}

\* the first cycle's inputs for parse: records with every shape of the state_type
\* and attempts fields, and records that lack a field
Typed(status, name, type, attempts) ==
  [status |-> status, host_display_name |-> name, state_type |-> type, attempts |-> attempts]

AttemptsGood == {<<"1", "/", "3">>, <<"2", "/", "3">>, <<"1", "/", "1">>,
                 <<"1", "1", "/", "3">>, <<"1", "/", "1", "3">>, <<"2", "/", "x">>}

AttemptsBad == {<<"x", "/", "3">>, <<"1", "/", "x">>, <<"1", "/", "2", "/", "3">>, <<"1">>}

ParseHosts ==
  {Typed("DOWN", "a", "SOFT", at) : at \in AttemptsGood \cup AttemptsBad}
    \cup {Typed("UNREACHABLE", "b", "HARD", at) : at \in {<<"1", "/", "3">>, <<"x", "/", "3">>}}
    \cup {[status |-> "DOWN", host_display_name |-> "c", state_type |-> "SOFT"],
          [status |-> "DOWN", host_display_name |-> "c", attempts |-> <<"1", "/", "3">>],
          [host_display_name |-> "c", state_type |-> "HARD"],
          [status |-> "DOWN", state_type |-> "HARD"]}

ParseServices ==
  {[status |-> "CRITICAL", host_display_name |-> "a", service_display_name |-> "s",
    state_type |-> "SOFT", attempts |-> at] : at \in {<<"1", "/", "3">>, <<"2", "/", "3">>}}
    \cup {[status |-> "WARNING", host_display_name |-> "a", service_display_name |-> "s",
           state_type |-> "HARD", attempts |-> <<"1", "/", "3">>],
          [host_display_name |-> "a", state_type |-> "HARD"]}

ParseData ==
  {Dict(hs, ss) : hs \in SeqsUpTo(ParseHosts, MaxParseHosts),
                  ss \in SeqsUpTo(ParseServices, MaxParseServices)}

----------------------------------------------------------------------------
(* The program: construction of NagiosLCD and of the fetcher succeeded.    *)

Init ==
  /\ pc = "poll"
  /\ lcd = TRUE
  /\ current_problems = <<>>
  /\ refresh = TRUE
  /\ last = NoStep
  /\ data = None
  /\ problems = <<>>
  /\ previous = <<>>
  /\ cmds = <<>>
  /\ slept = NoSleep
  /\ lastCall = NoCall
  /\ fresh = "constructed"
  /\ first = "no"
  /\ splashShown = FALSE
  /\ screen = PowerOn

MainFetch == fetch(MainData)

Poll ==
  /\ pc = "poll"
  /\ \E f \in MainFetch :
       \E run \in {try_body(current_problems, refresh, f)} :
         \E k \in 0..Len(run.calls) : Cycle(f, run, k)

Reattach == \E k \in 0..(Len(attach_calls) + 1) : AttachAttempt(k)

Next == Poll \/ DoSleep \/ Reattach

Spec == Init /\ [][Next]_vars

\* The first display_problems call after construction, on the richer inputs and
\* with a device that does not fail.
FirstFetch == {Fetched(v) : v \in OrderData \cup ParseData}

FirstPoll ==
  /\ pc = "poll"
  /\ fresh # "no"
  /\ \E f \in FirstFetch :
       \E run \in {try_body(current_problems, refresh, f)} : Cycle(f, run, 0)

NextFirst == FirstPoll \/ DoSleep

SpecFirst == Init /\ [][NextFirst]_vars

\* The poll loop over every fetcher class, the base class included, on short
\* lists of hosts.
AnyHosts == {HostRecord("DOWN", "a"), HostRecord("UNREACHABLE", "a")}

AnyFetch == fetch({Dict(hs, <<>>) : hs \in SeqsUpTo(AnyHosts, MaxAnyHosts)}) \cup Fetcher_fetch

AnyPoll ==
  /\ pc = "poll"
  /\ \E f \in AnyFetch :
       \E run \in {try_body(current_problems, refresh, f)} :
         \E k \in 0..Len(run.calls) : Cycle(f, run, k)

NextAny == AnyPoll \/ DoSleep \/ Reattach

SpecAny == Init /\ [][NextAny]_vars

\* The poll loop with a device that does not fail, on lists of problems with
\* states of the style table that fit the display.
MirrorData ==
  {d \in {Dict(hs, ss) : hs \in SeqsUpTo(MainHosts, MaxHosts),
                         ss \in SeqsUpTo({ServiceRecord("CRITICAL", "a", "s")}, MaxServices)} :
      Len(d.host_status) + Len(d.service_status) <= Len(lines)}
    \cup {Dict(Repeat(HostRecord("DOWN", "a"), Len(lines)), <<>>)}

MirrorPoll ==
  /\ pc = "poll"
  /\ \E f \in {Fetched(v) : v \in MirrorData} :
       \E run \in {try_body(current_problems, refresh, f)} : Cycle(f, run, 0)

NextMirror == MirrorPoll \/ DoSleep

SpecMirror == Init /\ [][NextMirror]_vars

----------------------------------------------------------------------------
(* A NagiosLCD object used directly: attach, detach and display_problems   *)
(* called in any order, as the methods allow.                              *)

SessionProblems ==
  SeqsUpTo({Problem("DOWN", "[a]"), Problem("WARNING", "[a] s")}, MaxSessionProblems)

\* what a step of the session leaves of the poll loop's observations
SessionFrame ==
  /\ data' = None
  /\ previous' = current_problems
  /\ lastCall' = NoCall
  /\ first' = "no"
  /\ UNCHANGED <<pc, slept, fresh, splashShown>>

\* lcd.detach()
SessionDetach ==
  /\ \E d \in {detach(lcd)} :
       /\ lcd' = d.lcd
       /\ last' = [step |-> "detach", at |-> "none", exc |-> d.exc, entered |-> FALSE]
  /\ problems' = <<>>
  /\ cmds' = <<>>
  /\ UNCHANGED <<current_problems, refresh, screen>>
  /\ SessionFrame

\* lcd.attach(), whose k-th step fails (k = 0: none)
SessionAttach ==
  /\ \E k \in 0..(Len(attach_calls) + 1) :
       \E a \in {attach(lcd, current_problems, refresh, k)} :
         /\ lcd' = a.lcd
         /\ current_problems' = a.current
         /\ refresh' = a.refresh
         /\ last' = [step |-> "attach", at |-> a.at, exc |-> a.exc, entered |-> FALSE]
  /\ problems' = <<>>
  /\ cmds' = <<>>
  /\ UNCHANGED screen
  /\ SessionFrame

\* lcd.display_problems(ps); self.lcd of the first device call raises
\* AttributeError when the attribute was deleted
SessionDisplay ==
  /\ \E ps \in SessionProblems :
       \E dp \in {display_problems(current_problems, refresh, ps)} :
         /\ problems' = ps
         /\ IF ~lcd /\ dp.calls # <<>>
            THEN /\ last' = [step |-> "display", at |-> "display", exc |-> "AttributeError",
                             entered |-> TRUE]
                 /\ cmds' = <<>>
                 /\ UNCHANGED <<current_problems, refresh>>
            ELSE /\ last' = [step |-> "display", at |-> "none", exc |-> dp.exc, entered |-> TRUE]
                 /\ cmds' = dp.calls
                 /\ current_problems' = dp.current
                 /\ refresh' = dp.refresh
  /\ screen' = DeviceRun(screen, cmds')
  /\ UNCHANGED lcd
  /\ SessionFrame

NextSession == SessionDetach \/ SessionAttach \/ SessionDisplay

SpecSession == Init /\ [][NextSession]_vars

----------------------------------------------------------------------------
(* What the claims speak of.                                               *)

\* this iteration entered display_problems / the call returned normally
Entered == last.step = "cycle" /\ last.entered
Completed == Entered /\ last.exc = "none"

\* the 0-based lines that a "render problem at line i" command of cs addresses:
\* by its text call, and by its icon call
TextLinesOf(cs) == {cs[j].pos - 1 : j \in {n \in DOMAIN cs : cs[n].op = "text" /\ cs[n].pad}}
IconLinesOf(cs) == {cs[j].pos \div 8 : j \in {n \in DOMAIN cs : cs[n].op = "icon" /\ cs[n].arg # "SPLASH"}}
RenderCount(cs) == Cardinality({n \in DOMAIN cs : cs[n].op = "text" /\ cs[n].pad})

\* the device calls of the splash, spelled out
IsSplash(cs) ==
  /\ Len(cs) = 3
  /\ cs[1].op = "clear" /\ cs[1].mask = 1..6 /\ cs[1].color = "LIGHT_GREY"
  /\ cs[2].op = "icon" /\ cs[2].pos = 0 /\ cs[2].arg = "SPLASH"
  /\ cs[3].op = "text" /\ cs[3].pos = 5 /\ cs[3].arg = "ALL UP" /\ ~cs[3].pad

IsClearAll(c) == c.op = "clear" /\ c.mask = 1..6 /\ c.color = "BLACK"

\* C1 (as claimed): when display_problems is called twice in a row with the same
\* problem sequence and both calls return, the second call issues no device call
\* and leaves current_problems unchanged.
C1_Idempotence ==
  [][(lastCall.ok /\ Completed' /\ problems' = lastCall.problems)
       => (cmds' = <<>> /\ current_problems' = current_problems)]_vars

\* C2: a completed display_problems call with a non-empty problem sequence renders
\* exactly the lines i of the new list with i >= len(previous) or new[i] # previous[i],
\* each once, and no line whose problem is unchanged.
ChangedLines ==
  {i \in 0..(Len(current_problems) - 1) :
     i >= Len(previous) \/ At(current_problems, i) # At(previous, i)}

C2_MinimalRedraw ==
  (Completed /\ Len(problems) > 0) =>
     /\ TextLinesOf(cmds) = ChangedLines
     /\ IconLinesOf(cmds) = ChangedLines
     /\ RenderCount(cmds) = Cardinality(ChangedLines)

\* a call that skips the unchanged line 0 and redraws line 1, whose state changed
C2_Witness ==
  /\ Completed /\ Len(previous) >= 2 /\ Len(current_problems) >= 2
  /\ At(current_problems, 0) = At(previous, 0)
  /\ At(current_problems, 1).descr = At(previous, 1).descr
  /\ At(current_problems, 1).state # At(previous, 1).state
  /\ TextLinesOf(cmds) = {1}

\* the position of a state in the style table (its severity rank)
RankOf(state) == CHOOSE k \in 1..Len(states) : states[k] = state

Ranked(ps, k) == SelectSeq(ps, LAMBDA p : p.state = states[k])

\* C3: after a completed display_problems call with a non-empty problem sequence
\* the lines hold the problems in non-decreasing rank order, and the problems of
\* each rank are those of the input, in the input's order.
C3_StableOrder ==
  (Completed /\ Len(problems) > 0) =>
     /\ \A i \in DOMAIN current_problems :
          \E k \in 1..Len(states) : states[k] = current_problems[i].state
     /\ \A i, j \in DOMAIN current_problems :
          i < j => RankOf(current_problems[i].state) <= RankOf(current_problems[j].state)
     /\ \A k \in 1..Len(states) : Ranked(current_problems, k) = Ranked(problems, k)

\* two problems of one rank keep the order of the input, and a problem of a later
\* rank that precedes one of an earlier rank in the input moves behind it
C3_Witness ==
  /\ Completed /\ Len(problems) = 4 /\ Len(current_problems) = 4
  /\ problems[1].state = "DOWN" /\ problems[2].state = "DOWN"
  /\ problems[1] # problems[2]
  /\ problems[3].state = "WARNING" /\ problems[4].state = "CRITICAL"
  /\ current_problems = <<problems[1], problems[2], problems[4], problems[3]>>

\* the severity classes of the claim, most urgent first
ClaimedClass(state) ==
  CASE state \in {"DOWN", "UNREACHABLE"} -> 1
    [] state \in {"WARNING", "CRITICAL"} -> 2
    [] state = "UNKNOWN"                 -> 3
    [] OTHER                             -> 4

\* C4 (as claimed): DOWN and UNREACHABLE form the most urgent class, then WARNING
\* and CRITICAL, then UNKNOWN, then UP and OK; no problem is on an earlier line than
\* a problem of a more urgent class, and DOWN and UNREACHABLE problems keep their
\* source order among themselves.
C4_ClaimedClasses ==
  (Completed /\ Len(problems) > 0) =>
     /\ \A i, j \in DOMAIN current_problems :
          i < j => ClaimedClass(current_problems[i].state) <= ClaimedClass(current_problems[j].state)
     /\ SelectSeq(current_problems, LAMBDA p : p.state \in {"DOWN", "UNREACHABLE"})
          = SelectSeq(problems, LAMBDA p : p.state \in {"DOWN", "UNREACHABLE"})

\* the order of the table of the code, one rank per state
TableRank(state) ==
  CASE state = "DOWN"        -> 1
    [] state = "CRITICAL"    -> 2
    [] state = "WARNING"     -> 3
    [] state = "UNREACHABLE" -> 4
    [] state = "UNKNOWN"     -> 5
    [] state = "UP"          -> 6
    [] state = "OK"          -> 7

\* C4 (amended): the table ranks the states DOWN, CRITICAL, WARNING, UNREACHABLE,
\* UNKNOWN, UP, OK, one rank each; no problem is on an earlier line than a problem
\* of a state that comes earlier in this order, and the problems of one state keep
\* their source order among themselves.
C4_TableOrder ==
  (Completed /\ Len(problems) > 0) =>
     /\ \A i \in DOMAIN current_problems :
          current_problems[i].state \in
            {"DOWN", "CRITICAL", "WARNING", "UNREACHABLE", "UNKNOWN", "UP", "OK"}
     /\ \A i, j \in DOMAIN current_problems :
          i < j => TableRank(current_problems[i].state) <= TableRank(current_problems[j].state)
     /\ \A st \in {"DOWN", "CRITICAL", "WARNING", "UNREACHABLE", "UNKNOWN", "UP", "OK"} :
          SelectSeq(current_problems, LAMBDA p : p.state = st)
            = SelectSeq(problems, LAMBDA p : p.state = st)

\* an UNREACHABLE host ahead of a WARNING and a CRITICAL service in the input ends
\* up behind both, CRITICAL first
C4_Witness ==
  /\ Completed /\ Len(problems) = 3 /\ Len(current_problems) = 3
  /\ problems[1].state = "UNREACHABLE"
  /\ problems[2].state = "WARNING" /\ problems[3].state = "CRITICAL"
  /\ current_problems = <<problems[3], problems[2], problems[1]>>

\* the attempts values among the inputs that read "<n>/<max>" with n = 1 and max > 1
FirstOfSeveral == {<<"1", "/", "3">>, <<"1", "/", "1", "3">>}

\* the suppression policy as claimed
Suppressed(d) ==
  /\ "state_type" \in DOMAIN d /\ d.state_type = "SOFT"
  /\ "attempts" \in DOMAIN d /\ d.attempts \in FirstOfSeveral

Included(recs) == SelectSeq(recs, LAMBDA d : ~Suppressed(d))

ProblemsOf(kind, recs) == [i \in 1..Len(recs) |-> MakeProblem(kind, recs[i])]

\* C5: when parse returns, the Problem sequence holds one Problem for every
\* host_status record and then for every service_status record that is not
\* suppressed, in the order of the source; a record is suppressed if and only if
\* its state_type is SOFT and its attempts read n/max with n = 1 and max > 1.
C5_Suppression ==
  Entered =>
     problems = ProblemsOf("host", Included(data.host_status))
                  \o ProblemsOf("service", Included(data.service_status))

\* SOFT 1/3 host and service excluded, SOFT 1/1 host included
C5_Witness ==
  /\ Entered
  /\ data = Dict(<<Typed("DOWN", "a", "SOFT", <<"1", "/", "3">>),
                   Typed("DOWN", "a", "SOFT", <<"1", "/", "1">>)>>,
                 <<[status |-> "CRITICAL", host_display_name |-> "a",
                    service_display_name |-> "s", state_type |-> "SOFT",
                    attempts |-> <<"1", "/", "3">>]>>)
  /\ problems = <<Problem("DOWN", "[a]")>>

\* C6: a completed display_problems([]) issues the splash sequence, once, and
\* empties current_problems when current_problems was non-empty or no empty call has
\* shown the splash since the last attach; otherwise it issues no device command.
\* The first empty call after attach shows the splash, and an empty call right
\* after a completed empty call shows nothing.
C6_Splash ==
  [][(Completed' /\ Len(problems') = 0) =>
       /\ IF Len(current_problems) > 0 \/ ~splashShown
          THEN IsSplash(cmds') /\ current_problems' = <<>> /\ splashShown'
          ELSE cmds' = <<>> /\ current_problems' = current_problems
       /\ first' # "no" => IsSplash(cmds')
       /\ (lastCall.ok /\ lastCall.problems = <<>>) => cmds' = <<>>]_vars

\* an empty call right after an empty call: nothing is sent
C6_Witness ==
  /\ Completed /\ Len(problems) = 0 /\ cmds = <<>>
  /\ splashShown /\ previous = <<>> /\ current_problems = <<>>

\* C7 (as claimed): current_problems never holds more than 6 problems, and after a
\* completed display_problems(P) no more than P holds.
C7_Bound ==
  /\ Len(current_problems) <= 6
  /\ Completed => Len(current_problems) <= Len(problems)

\* C8 (as claimed): no render or clear command addresses a line index of 6 or more,
\* a sequence of more than 6 problems leaves the first 6 of the sorted order on
\* lines 0..5, and no call fails for a line index out of range.
C8_Truncation ==
  /\ \A n \in DOMAIN cmds :
       /\ (cmds[n].op = "text" /\ cmds[n].pad) => cmds[n].pos - 1 < 6
       /\ (cmds[n].op = "icon" /\ cmds[n].arg # "SPLASH") => cmds[n].pos \div 8 < 6
       /\ cmds[n].op = "clear" => cmds[n].mask \subseteq 1..6
  /\ (Completed /\ Len(problems) > 6) =>
       /\ Len(current_problems) = 6
       /\ TextLinesOf(cmds) \subseteq 0..5
  /\ last.exc # "IndexError"

\* the commands of a redraw of every line, on an empty display
FullRedraw(cs, ps, cur) ==
  IF Len(ps) = 0 THEN IsSplash(cs)
  ELSE /\ Len(cs) > 0 /\ IsClearAll(cs[1])
       /\ TextLinesOf(cs) = 0..(Len(cur) - 1)
       /\ IconLinesOf(cs) = 0..(Len(cur) - 1)
       /\ RenderCount(cs) = Len(cur)

\* C9: a USBError raised in display_problems leads to detach and to the attach
\* loop; there nothing but attach is called, a failed attach is followed by the
\* fixed wait and another attach, a successful one empties current_problems and
\* returns to the poll loop; the first display_problems completed after it starts
\* from an empty current_problems and redraws every line.
C9_Reconnect ==
  [][/\ (last'.step = "cycle" /\ last'.exc = "USBError") =>
          (pc' = "reattach" /\ ~lcd' /\ pc = "poll")
     /\ pc = "reattach" =>
          /\ last'.step = "attach" /\ cmds' = <<>>
          /\ IF last'.exc = "none"
             THEN pc' = "sleep" /\ lcd' /\ current_problems' = <<>> /\ slept' = slept
             ELSE pc' = "reattach" /\ slept' = <<"wait_for_lcd_attach", ReattachSleep>>
     /\ (Completed' /\ first' = "reattached") =>
          /\ previous' = <<>>
          /\ FullRedraw(cmds', problems', current_problems')]_vars

\* the first call after a reattach, with two problems
C9_Witness ==
  /\ Completed /\ first = "reattached"
  /\ Len(problems) = 2 /\ Len(current_problems) = 2 /\ RenderCount(cmds) = 2

\* C10 (as claimed): a cycle whose fetch fails sends nothing to the device, leaves
\* current_problems as it was and goes on to the sleep and the next cycle.
C10_FetchErrors ==
  (last.step = "cycle" /\ last.at = "fetch") =>
     (pc = "sleep" /\ cmds = <<>> /\ current_problems = previous)

\* C11 (as claimed): detach never raises, whatever the state of the session, and
\* leaves the session detached; a second detach leaves the state of the first.
C11_DetachSafe ==
  [][last'.step = "detach" =>
       /\ last'.exc = "none"
       /\ ~lcd'
       /\ ~lcd => UNCHANGED <<lcd, current_problems, refresh>>]_vars

\* C12 (as claimed): parse returns a Problem sequence for every value fetch
\* returned, raising nothing: a cycle whose fetch returned reaches
\* display_problems, and a record without status or display name yields a Problem
\* with state UNKNOWN or the placeholder description.
C12_ParseTotal ==
  (last.step = "cycle" /\ last.at # "fetch") =>
     /\ last.at # "parse"
     /\ Entered
     /\ \A i \in DOMAIN data.host_status :
          ("status" \notin DOMAIN data.host_status[i] /\ ~Suppressed(data.host_status[i]))
             => \E j \in DOMAIN problems : problems[j].state = "UNKNOWN"

\* C13: a NotImplementedError raised by fetch leaves the loop: nothing is sent to
\* the device, the session is not detached, no sleep, no reconnect and no further
\* step follows.
C13_ContractFatal ==
  [][/\ last'.exc = "NotImplementedError" =>
          /\ pc' = "exited"
          /\ cmds' = <<>> /\ slept' = slept
          /\ lcd' = lcd /\ current_problems' = current_problems
     /\ pc # "exited"]_vars

\* the loop ended by the error of a fetcher without fetch, after earlier cycles
C13_Witness ==
  /\ last.step = "cycle" /\ last.at = "fetch" /\ last.exc = "NotImplementedError"
  /\ pc = "exited" /\ slept = <<"do_sleep", FetcherSleep>>

IsUp(p) == p.state \in {"UP", "OK"}

\* C14 (as claimed): no render command is issued for a problem with state UP or
\* OK, and no such problem is stored in current_problems.
C14_UpNeverRendered ==
  Completed =>
     /\ \A i \in DOMAIN current_problems : ~IsUp(current_problems[i])
     /\ \A n \in DOMAIN cmds : ~(cmds[n].op = "icon" /\ cmds[n].arg = "UP")

\* C14 (amended): a problem with state UP or OK is displayed like any other: it is
\* stored in current_problems behind every problem of another state (UP before OK,
\* each in source order) and, on a display that showed no problems before, its
\* line gets the UP icon and its description in green.
C14_UpRenderedLast ==
  (Completed /\ Len(problems) > 0 /\ previous = <<>>) =>
     /\ SelectSeq(current_problems, IsUp)
          = SelectSeq(problems, LAMBDA p : p.state = "UP")
              \o SelectSeq(problems, LAMBDA p : p.state = "OK")
     /\ \A i, j \in DOMAIN current_problems :
          (IsUp(current_problems[i]) /\ ~IsUp(current_problems[j])) => j < i
     /\ \A i \in DOMAIN current_problems :
          IsUp(current_problems[i]) =>
             \E n \in 1..(Len(cmds) - 1) :
                /\ cmds[n] = IconCmd((i - 1) * 8, "UP")
                /\ cmds[n + 1] = TextCmd(i, current_problems[i].descr, TRUE, "LEFT", "GREEN")

\* an UP host ahead of a CRITICAL and an OK service in the input
C14_Witness ==
  /\ Completed /\ Len(problems) = 3 /\ Len(current_problems) = 3
  /\ problems[1].state = "UP" /\ problems[2].state = "OK" /\ problems[3].state = "CRITICAL"
  /\ current_problems = <<problems[3], problems[1], problems[2]>>
  /\ Len(cmds) = 7

\* C15 (as claimed): current_problems holds no Problem value twice, and no value
\* is rendered on two lines in one call.
C15_Deduplicated ==
  Completed =>
     /\ \A i, j \in DOMAIN current_problems :
          i < j => current_problems[i] # current_problems[j]
     /\ \A n, m \in DOMAIN cmds :
          (n < m /\ cmds[n].op = "text" /\ cmds[n].pad /\ cmds[m].op = "text" /\ cmds[m].pad)
             => (cmds[n].arg # cmds[m].arg \/ cmds[n].color # cmds[m].color)

InTable(p) ==
  p.state \in {"DOWN", "CRITICAL", "WARNING", "UNREACHABLE", "UNKNOWN", "UP", "OK"}

\* the line identifiers of the line indexes from..(to - 1)
LineIds(from, to) == {i + 1 : i \in from..(to - 1)}

\* C16 (as claimed): in a display_problems call with a non-empty problem sequence
\* that no device error interrupts, when the sorted sequence is shorter than the
\* previous current_problems exactly one clear command is issued, the last
\* command of the call, for the lines len(ordered)..len(previous) - 1; when it is
\* not shorter, no clear command is issued but the one that removes the splash.
C16_ClearStale ==
  (Entered /\ last.exc # "USBError" /\ Len(problems) > 0) =>
     LET ordered == Len(SelectSeq(problems, InTable))
         clears == {n \in DOMAIN cmds : cmds[n].op = "clear"}
     IN IF ordered < Len(previous)
        THEN /\ clears = {Len(cmds)}
             /\ cmds[Len(cmds)] = ClearCmd(LineIds(ordered, Len(previous)), "BLACK")
        ELSE clears = (IF previous = <<>> THEN {1} ELSE {})

\* C17 (as claimed): in a display_problems call with a non-empty problem sequence
\* a command that clears all lines is issued if and only if current_problems was
\* empty before the call; it then is the first command of the call, and a render
\* of every line of the new current_problems follows it.
C17_SplashRemoval ==
  (Entered /\ last.exc # "USBError" /\ Len(problems) > 0) =>
     LET ordered == Len(SelectSeq(problems, InTable))
     IN /\ (\E n \in DOMAIN cmds : IsClearAll(cmds[n])) <=> previous = <<>>
        /\ previous = <<>> =>
             /\ IsClearAll(cmds[1])
             /\ \A n \in DOMAIN cmds : IsClearAll(cmds[n]) => n = 1
             /\ TextLinesOf(SubSeq(cmds, 2, Len(cmds))) = 0..(ordered - 1)
             /\ IconLinesOf(SubSeq(cmds, 2, Len(cmds))) = 0..(ordered - 1)

\* the state of the device session as the loop knows it
Session == IF pc = "reattach" THEN "DETACHED" ELSE "ATTACHED"

\* C18: the session leaves ATTACHED only by a USBError of a poll cycle, which
\* detaches it, and comes back only by an attach that succeeds; while it is
\* DETACHED every step is an attach, no fetch and no display_problems runs and no
\* device command is issued; device commands are issued by poll cycles only, with
\* the session attached.
C18_SessionMachine ==
  [][/\ cmds' # <<>> => (Session = "ATTACHED" /\ lcd /\ pc = "poll" /\ last'.step = "cycle")
     /\ (last'.step = "cycle" /\ last'.exc = "USBError") => (Session' = "DETACHED" /\ ~lcd')
     /\ (Session = "ATTACHED" /\ Session' = "DETACHED") =>
          (last'.step = "cycle" /\ last'.exc = "USBError")
     /\ Session = "DETACHED" =>
          /\ last'.step = "attach"
          /\ cmds' = <<>> /\ problems' = <<>> /\ data' = None
          /\ Session' = "ATTACHED" <=> last'.exc = "none"
     /\ pc' \in {"poll", "sleep"} => lcd']_vars

\* back in the poll loop after a failed and a successful attach
C18_Witness ==
  /\ pc = "sleep" /\ last.step = "attach" /\ last.exc = "none" /\ lcd
  /\ slept = <<"wait_for_lcd_attach", ReattachSleep>>

\* the display shows the splash: the large image, ALL UP on line 5, nothing else
ShowsSplash(scr) ==
  /\ scr.image
  /\ \A i \in 1..6 :
       scr.rows[i] = IF i = 5 THEN [icon |-> "NONE", text |-> "ALL UP", color |-> "GREEN"]
                     ELSE BlankLine

\* the display shows the problems ps, one a line from line 0 on, each with the
\* icon and the colour of its state, and nothing else
ShowsProblems(scr, ps) ==
  /\ ~scr.image
  /\ \A i \in 1..6 :
       scr.rows[i] = IF i <= Len(ps)
                     THEN [icon |-> StateStyle(ps[i].state).image, text |-> ps[i].descr,
                           color |-> StateStyle(ps[i].state).color]
                     ELSE BlankLine

\* C19: once display_problems was called after attach, after every completed
\* call on at most 6 problems with states of the style table the display shows
\* what current_problems describes: the splash when it is empty, else line i
\* shows current_problems[i] in the style of its state and every other line is
\* blank.
C19_Mirror ==
  fresh = "no" =>
     /\ Len(current_problems) <= 6
     /\ IF current_problems = <<>>
        THEN ShowsSplash(screen)
        ELSE ShowsProblems(screen, current_problems)

\* three problems shown, then one: lines 1 and 2 are blank again
C19_Witness ==
  /\ Completed /\ Len(previous) = 3 /\ Len(current_problems) = 1
  /\ current_problems[1] # previous[1]
  /\ ShowsProblems(screen, current_problems)

\* the display shows nothing at all
ShowsNothing(scr) == ~scr.image /\ \A i \in 1..6 : scr.rows[i] = BlankLine

\* C20 (as claimed): whenever a display_problems([]) call completes the display
\* shows the splash, and no completed call with a non-empty problem sequence
\* leaves the display without the splash and without any problem line.
C20_SplashRestored ==
  Completed =>
     IF problems = <<>> THEN ShowsSplash(screen) ELSE ~ShowsNothing(screen)

====
